---- MODULE Spec2Model ----
(***************************************************************************)
(* The tutoring page (src/app/page.tsx), the chat component it renders     *)
(* (src/components/TutorChat.tsx), the /api/evaluate route and the         *)
(* evaluation gateway (src/lib/llm/evaluate.ts) as one state machine.      *)
(*                                                                         *)
(* React state is modelled by its committed value.  A handler that awaits  *)
(* a fetch is split at the await: the part before it is one action, the    *)
(* continuation (with the values its closure captured) another.  Callbacks *)
(* handed to setTimeout are pending timers that fire as their own step.    *)
(***************************************************************************)
EXTENDS Integers, Sequences, FiniteSets, Bags, TLC

(* ------------------------------ bounds --------------------------------- *)
\* learner submissions accepted in a run, in Spec and in SpecChat
MaxSubmits == 2
MaxSubmitsChat == 4
\* problems the learner picks from the picker, in Spec and in SpecChat
MaxPicks == 2
MaxPicksChat == 1
\* the longest array of problems the model returns, and the largest count asked
MaxGenerated == 2
MaxCount == 3

(* ------------------------- program constants --------------------------- *)
\* "Hints used: {hintsUsed}/3"
HintCeiling == 3

\* no problem (JavaScript null)
NULL == [null |-> TRUE]
\* a property that is absent from an object (JavaScript undefined)
Missing == "undefined"

\* ids the problem repository holds
Repository == {"p1"}

ResponseTypes ==
    {"correct_final", "partial_progress", "arithmetic_error",
     "conceptual_error", "needs_hint"}
BadgeTypes == {"partial_progress", "hint_given", "corrective_feedback"}

FallbackMessage == "I'm having trouble understanding your answer."
ErrorMessage == "Sorry, I had trouble understanding that."
SolutionIntro == "Here's how to solve this problem:"

\* JavaScript truthiness; JSON values are written as strings
Falsy(v) == v \in {Missing, "", "false"}

(* ------------------- the evaluation gateway (server) ------------------- *)
\* What the chat-completion call yields: it throws, it has no content, its
\* content is no JSON, its content is the JSON literal null, or it is a JSON
\* object with any of the four properties present or absent.
RawKinds == {"throw", "empty", "unparsable", "null", "json"}

NoJson(k) ==
    [kind |-> k, response_type |-> Missing, tutor_message |-> Missing,
     badge_type |-> Missing, show_solution_button |-> Missing]

Json(rt, msg, badge, show) ==
    [kind |-> "json", response_type |-> rt, tutor_message |-> msg,
     badge_type |-> badge, show_solution_button |-> show]

FallbackResponse ==
    [response_type |-> "needs_hint", tutor_message |-> FallbackMessage,
     badge_type |-> "hint_given", show_solution_button |-> "false",
     explanation |-> Missing]

\* evaluateAnswer's try block and its catch
evaluateAnswer(raw) ==
    IF raw.kind # "json"
    THEN FallbackResponse
    ELSE IF Falsy(raw.response_type) \/ Falsy(raw.tutor_message)
            \/ Falsy(raw.badge_type)
         THEN FallbackResponse
         ELSE [response_type |-> raw.response_type,
               tutor_message |-> raw.tutor_message,
               badge_type |-> raw.badge_type,
               show_solution_button |-> raw.show_solution_button,
               explanation |-> Missing]

ErrorBody ==
    [response_type |-> Missing, tutor_message |-> Missing,
     badge_type |-> Missing, show_solution_button |-> Missing,
     explanation |-> Missing]

\* getSolutionExplanation never throws: it returns the model's text or one of
\* two fixed sentences, all non-empty strings.
SolutionBody ==
    [response_type |-> "correct_final", tutor_message |-> SolutionIntro,
     badge_type |-> "hint_given", show_solution_button |-> "false",
     explanation |-> "explanation"]

\* POST /api/evaluate.  env.fault says what fails on the way: "server" an
\* exception in the handler (status 500), "db" the repository lookup.
POST(body, env) ==
    IF Falsy(body.problem_id) \/ Falsy(body.student_answer)
    THEN [status |-> 400, body |-> ErrorBody]
    ELSE IF env.fault = "server"
    THEN [status |-> 500, body |-> ErrorBody]
    ELSE IF env.fault = "db" \/ body.problem_id \notin Repository
    THEN [status |-> 404, body |-> ErrorBody]
    ELSE IF body.request_solution
    THEN [status |-> 200, body |-> SolutionBody]
    ELSE [status |-> 200, body |-> evaluateAnswer(env.raw)]

\* fetch('/api/evaluate') as the client sees it: a rejected promise, or the
\* route's response
NetworkError == [status |-> 0, body |-> ErrorBody]
Fetch(body, env) ==
    IF env.fault = "network" THEN NetworkError ELSE POST(body, env)

(* --------------- what the environment may do to one call --------------- *)
\* the model responses the attempt-level specifications draw from
ModelRaws ==
    { NoJson("throw"),
      Json("correct_final", "msg", "partial_progress", "false"),
      Json("needs_hint", "msg", "hint_given", "false"),
      Json("needs_hint", "msg", "hint_given", "true"),
      Json("partial_progress", "msg", "partial_progress", "false"),
      Json("needs_hint", "msg", "corrective_feedback", "false"),
      Json("partial_progress", "msg", "hint_given", "false"),
      Json("conceptual_error", "msg", "corrective_feedback", "true") }

Envs ==
    {[fault |-> f, raw |-> NoJson("throw")] : f \in {"network", "server", "db"}}
    \cup {[fault |-> "none", raw |-> r] : r \in ModelRaws}

\* a solution request never reaches evaluateAnswer
SolutionEnvs ==
    {[fault |-> f, raw |-> NoJson("throw")] : f \in {"none", "network", "server", "db"}}

(* ------------------------------ problems ------------------------------- *)
\* what /api/problems/find hands to onProblemSelected
CanonicalProblems == {[id |-> i, generated |-> FALSE] : i \in Repository}
\* result.problems[0] of /api/generate-similar: the model's JSON object as it
\* came (generate-similar.ts casts it to GeneratedProblem, which has no id);
\* it has an id only if the model's JSON carried one.
GeneratedProblems == {[id |-> i, generated |-> TRUE] : i \in {Missing} \cup Repository}

(* ------------------- the diagnostic call (server) ---------------------- *)
MisconceptionTypes ==
    {"conceptual", "procedural", "arithmetic", "reading_comprehension",
     "incomplete_knowledge", "careless_error", "none"}
Confidences == {"high", "medium", "low"}

DiagNoJson(k) ==
    [kind |-> k, misconception_type |-> Missing, confidence |-> Missing,
     description |-> Missing]

DiagJson(type, conf, desc) ==
    [kind |-> "json", misconception_type |-> type, confidence |-> conf,
     description |-> desc]

DiagnosticFallback ==
    [raised |-> FALSE, misconception_type |-> "none", confidence |-> "low",
     description |-> "Unable to determine specific misconception from available data.",
     recommendations |->
         <<"Continue working with the student to gather more information",
           "Provide additional practice problems to identify patterns">>]

DiagnosticRaised ==
    [raised |-> TRUE, misconception_type |-> Missing, confidence |-> Missing,
     description |-> Missing, recommendations |-> <<>>]

\* mutant: the validation looks at misconception_type only
diagnoseStudent_TypeOnly(request, raw) ==
    IF ~request.arrays
    THEN DiagnosticRaised
    ELSE IF raw.kind # "json"
    THEN DiagnosticFallback
    ELSE IF Falsy(raw.misconception_type)
         THEN DiagnosticFallback
         ELSE [raised |-> FALSE,
               misconception_type |-> raw.misconception_type,
               confidence |-> raw.confidence,
               description |-> raw.description,
               recommendations |-> <<"recommendation">>]

\* diagnoseStudent.  The prompt is built before the try, by .map over
\* conversation_history and student_answers: a request whose two fields are
\* not arrays raises there, before the model is called.  Everything from the
\* model call on is inside the try, whose catch returns the fallback.
diagnoseStudent(request, raw) ==
    IF ~request.arrays
    THEN DiagnosticRaised
    ELSE IF raw.kind # "json"
    THEN DiagnosticFallback
    ELSE IF Falsy(raw.misconception_type) \/ Falsy(raw.confidence)
            \/ Falsy(raw.description)
         THEN DiagnosticFallback
         ELSE [raised |-> FALSE,
               misconception_type |-> raw.misconception_type,
               confidence |-> raw.confidence,
               description |-> raw.description,
               recommendations |-> <<"recommendation">>]

(* ------------------------ similar-problem library ----------------------- *)
\* what the completion gives generateSimilarProblems: an exception, no content,
\* text that is not JSON, or a JSON value in which an array of problems was
\* found (under one of the keys tried, or as the first array value) or not
GenNoJson(k) == [kind |-> k, hasArray |-> FALSE, problems |-> <<>>]
GenJson(found, problems) == [kind |-> "json", hasArray |-> found, problems |-> problems]

\* throw new Error('Failed to generate similar problems: ...')
GenerateThrown == [thrown |-> TRUE, problems |-> <<>>]

\* problems.slice(0, count)
Slice(problems, count) ==
    SubSeq(problems, 1, IF count < Len(problems) THEN count ELSE Len(problems))

\* generateSimilarProblems: what it returns, or that it throws
generateSimilarProblems(count, raw) ==
    IF raw.kind # "json"
    THEN GenerateThrown
    ELSE IF ~raw.hasArray \/ Len(raw.problems) = 0
    THEN GenerateThrown
    ELSE IF \E i \in 1..Len(raw.problems) :
               \/ Falsy(raw.problems[i].text)
               \/ Falsy(raw.problems[i].expected_answer)
               \/ Falsy(raw.problems[i].explanation)
    THEN GenerateThrown
    ELSE [thrown |-> FALSE, problems |-> Slice(raw.problems, count)]

NoSubmit == [loading |-> FALSE, did |-> "none"]

VARIABLES
    \* page.tsx
    currentProblem, originalProblem, isMasteryCheck, showMasteryCheckModal,
    showCelebrationModal, celebrationType, isGeneratingMastery,
    \* TutorChat.tsx (the mounted instance; initial values while none is)
    messages, isLoading, hintsUsed, showSolutionButton,
    \* identity of the mounted TutorChat instance; submissions and picks so far
    mountId, submits, picks,
    \* fetches awaiting their response, and pending setTimeout callbacks
    calls, genCalls, timers,
    \* what the handleSubmit invocation of the step just taken did, and whether
    \* a call was in flight when it ran (NoSubmit after any other step)
    submitOutcome,
    \* history: the chat instances whose original attempt had the mastery
    \* offer raised, once per run of the callback
    offersRaised,
    \* one call of evaluateAnswer on its own: the model's response and the
    \* value returned (SpecGateway)
    gwRaw, gwResult,
    \* rows of the problem_attempts table: createProblemAttempt inserts one,
    \* updateProblemAttempt sets its final_status; neither has a caller in the
    \* page, the chat or the routes
    problem_attempts,
    \* history: how many turns the mounted chat held when the attempt it now
    \* shows began (0 at mount; the turns kept when a mastery attempt starts)
    attemptStart,
    \* one call of diagnoseStudent on its own: the request, the model's
    \* response and the value returned or the exception raised (SpecDiagnose)
    dgRequest, dgRaw, dgResult,
    gsCount, gsRaw, gsResult

pageVars ==
    <<currentProblem, originalProblem, isMasteryCheck, showMasteryCheckModal,
      showCelebrationModal, celebrationType, isGeneratingMastery>>
chatVars == <<messages, isLoading, hintsUsed, showSolutionButton>>
vars ==
    <<currentProblem, originalProblem, isMasteryCheck, showMasteryCheckModal,
      showCelebrationModal, celebrationType, isGeneratingMastery,
      messages, isLoading, hintsUsed, showSolutionButton,
      mountId, submits, picks, calls, genCalls, timers,
      submitOutcome, offersRaised, gwRaw, gwResult, problem_attempts,
      attemptStart, dgRequest, dgRaw, dgResult, gsCount, gsRaw, gsResult>>
gatewayVars == <<gwRaw, gwResult>>
diagnoseVars == <<dgRequest, dgRaw, dgResult>>
generateVars == <<gsCount, gsRaw, gsResult>>
\* the server-side calls that are modelled on their own
libVars == <<gatewayVars, diagnoseVars, generateVars>>

Init ==
    /\ currentProblem = NULL
    /\ originalProblem = NULL
    /\ isMasteryCheck = FALSE
    /\ showMasteryCheckModal = FALSE
    /\ showCelebrationModal = FALSE
    /\ celebrationType = "mastery_passed"
    /\ isGeneratingMastery = FALSE
    /\ messages = <<>>
    /\ isLoading = FALSE
    /\ hintsUsed = 0
    /\ showSolutionButton = FALSE
    /\ mountId = 0
    /\ submits = 0
    /\ picks = 0
    /\ calls = {}
    /\ genCalls = EmptyBag
    /\ timers = EmptyBag
    /\ submitOutcome = NoSubmit
    /\ offersRaised = EmptyBag
    /\ gwRaw = NoJson("throw")
    /\ gwResult = NULL
    /\ problem_attempts = {}
    /\ attemptStart = 0
    /\ dgRequest = [arrays |-> TRUE]
    /\ dgRaw = DiagNoJson("throw")
    /\ dgResult = NULL
    /\ gsCount = 1
    /\ gsRaw = GenNoJson("throw")
    /\ gsResult = NULL

(* ------------------- mounting of the chat component -------------------- *)
\* <TutorChat> is rendered, without a key, exactly while currentProblem is
\* set: it mounts (useState initial values) when currentProblem goes from
\* null to a problem, unmounts when it goes to null, and otherwise keeps its
\* state whatever its props become.
Remount(before, after) == before = NULL /\ after # NULL
Unmount(before, after) == after = NULL

Render(before, after) ==
    IF Remount(before, after) \/ Unmount(before, after)
    THEN /\ messages' = <<>>
         /\ isLoading' = FALSE
         /\ hintsUsed' = 0
         /\ showSolutionButton' = FALSE
         /\ mountId' = IF Remount(before, after) THEN mountId + 1 ELSE mountId
    ELSE UNCHANGED <<messages, isLoading, hintsUsed, showSolutionButton,
                     mountId>>

Mounted == currentProblem # NULL
\* the instance a continuation belongs to is still the mounted one
Live(c) == Mounted /\ c.mount = mountId

(* ------------------------------- page ---------------------------------- *)
\* ProblemPicker is rendered while no problem is current
handleProblemSelected(problem, limit) ==
    /\ currentProblem = NULL
    /\ picks < limit
    /\ picks' = picks + 1
    /\ currentProblem' = problem
    /\ originalProblem' = NULL
    /\ isMasteryCheck' = FALSE
    /\ showMasteryCheckModal' = FALSE
    /\ showCelebrationModal' = FALSE
    /\ Render(currentProblem, problem)
    /\ UNCHANGED <<celebrationType, isGeneratingMastery, submits, calls, genCalls,
                   timers>>
    /\ submitOutcome' = NoSubmit
    /\ UNCHANGED <<offersRaised, libVars, problem_attempts>>
    /\ attemptStart' = 0

\* setTimeout(() => onCorrectAnswer(), 1500) with the original attempt's prop
handleOriginalCorrectAnswer ==
    \E t \in BagToSet(timers) :
        /\ t.handler = "handleOriginalCorrectAnswer"
        /\ timers' = timers (-) SetToBag({t})
        /\ showMasteryCheckModal' = TRUE
        /\ offersRaised' = offersRaised (+) SetToBag({t.mount})
        /\ UNCHANGED <<currentProblem, originalProblem, isMasteryCheck,
                       showCelebrationModal, celebrationType,
                       isGeneratingMastery, chatVars, mountId, submits, picks,
                       calls, genCalls>>
    /\ submitOutcome' = NoSubmit
    /\ UNCHANGED <<libVars, problem_attempts, attemptStart>>

\* setTimeout(() => onCorrectAnswer(), 1500) with the mastery attempt's prop
handleMasteryCorrectAnswer ==
    \E t \in BagToSet(timers) :
        /\ t.handler = "handleMasteryCorrectAnswer"
        /\ timers' = timers (-) SetToBag({t})
        /\ celebrationType' = "mastery_passed"
        /\ showCelebrationModal' = TRUE
        /\ UNCHANGED <<currentProblem, originalProblem, isMasteryCheck,
                       showMasteryCheckModal, isGeneratingMastery, chatVars,
                       mountId, submits, picks, calls, genCalls>>
    /\ submitOutcome' = NoSubmit
    /\ UNCHANGED <<offersRaised, libVars, problem_attempts, attemptStart>>

\* setTimeout(() => onMasteryFailed(), 1500)
handleMasteryFailed ==
    \E t \in BagToSet(timers) :
        /\ t.handler = "handleMasteryFailed"
        /\ timers' = timers (-) SetToBag({t})
        /\ celebrationType' = "mastery_failed"
        /\ showCelebrationModal' = TRUE
        /\ UNCHANGED <<currentProblem, originalProblem, isMasteryCheck,
                       showMasteryCheckModal, isGeneratingMastery, chatVars,
                       mountId, submits, picks, calls, genCalls>>
    /\ submitOutcome' = NoSubmit
    /\ UNCHANGED <<offersRaised, libVars, problem_attempts, attemptStart>>

(* --------------------- /api/generate-similar --------------------------- *)
\* env.problems is what generateSimilarProblems got from the model, cut to
\* count = 1; it throws (status 500) when that is empty.
GenEnvs ==
    {[fault |-> f, problems |-> <<>>] : f \in {"none", "network", "db"}}
    \cup {[fault |-> "none", problems |-> <<p>>] : p \in GeneratedProblems}

GeneratePOST(body, env) ==
    IF Falsy(body.problem_id)
    THEN [status |-> 400, problems |-> <<>>]
    ELSE IF env.fault = "db" \/ body.problem_id \notin Repository
    THEN [status |-> 404, problems |-> <<>>]
    ELSE IF env.problems = <<>>
    THEN [status |-> 500, problems |-> <<>>]
    ELSE [status |-> 200, problems |-> env.problems]

GenerateFetch(body, env) ==
    IF env.fault = "network"
    THEN [status |-> 0, problems |-> <<>>]
    ELSE GeneratePOST(body, env)

\* handleStartMasteryCheck up to its await.  With no current problem,
\* currentProblem!.id throws inside the try, and catch and finally run at once.
handleStartMasteryCheck ==
    /\ showMasteryCheckModal
    /\ showMasteryCheckModal' = FALSE
    /\ IF currentProblem = NULL
       THEN /\ isGeneratingMastery' = FALSE
            /\ UNCHANGED genCalls
       ELSE /\ isGeneratingMastery' = TRUE
            /\ \E env \in GenEnvs :
                   genCalls' = genCalls (+) SetToBag({
                       [body |-> [problem_id |-> currentProblem.id, count |-> 1,
                                  difficulty_adjustment |-> "same"],
                        currentProblem |-> currentProblem,
                        env |-> env]})
    /\ UNCHANGED <<currentProblem, originalProblem, isMasteryCheck,
                   showCelebrationModal, celebrationType, chatVars, mountId,
                   submits, picks, calls, timers>>
    /\ submitOutcome' = NoSubmit
    /\ UNCHANGED <<offersRaised, libVars, problem_attempts, attemptStart>>

\* handleStartMasteryCheck from the response on
StartMasteryCheckResolved ==
    \E g \in BagToSet(genCalls) :
        LET response == GenerateFetch(g.body, g.env)
            ok == response.status = 200 /\ Len(response.problems) > 0
            next == IF ok THEN response.problems[1] ELSE NULL
        IN  /\ genCalls' = genCalls (-) SetToBag({g})
            /\ currentProblem' = next
            /\ originalProblem' = IF ok THEN g.currentProblem ELSE originalProblem
            /\ isMasteryCheck' = IF ok THEN TRUE ELSE isMasteryCheck
            /\ isGeneratingMastery' = FALSE
            /\ Render(currentProblem, next)
            /\ attemptStart' = IF ok THEN Len(messages') ELSE 0
            /\ UNCHANGED <<showMasteryCheckModal, showCelebrationModal,
                           celebrationType, submits, picks, calls, timers>>
    /\ submitOutcome' = NoSubmit
    /\ UNCHANGED <<offersRaised, libVars, problem_attempts>>

\* MasteryCheckModal's second button
handleSkipMasteryCheck ==
    /\ showMasteryCheckModal
    /\ showMasteryCheckModal' = FALSE
    /\ currentProblem' = NULL
    /\ originalProblem' = NULL
    /\ Render(currentProblem, NULL)
    /\ UNCHANGED <<isMasteryCheck, showCelebrationModal, celebrationType,
                   isGeneratingMastery, submits, picks, calls, genCalls,
                   timers>>
    /\ submitOutcome' = NoSubmit
    /\ UNCHANGED <<offersRaised, libVars, problem_attempts>>
    /\ attemptStart' = 0

\* CelebrationModal's button
handleCelebrationContinue ==
    /\ showCelebrationModal
    /\ showCelebrationModal' = FALSE
    /\ currentProblem' = NULL
    /\ originalProblem' = NULL
    /\ isMasteryCheck' = FALSE
    /\ Render(currentProblem, NULL)
    /\ UNCHANGED <<showMasteryCheckModal, celebrationType, isGeneratingMastery,
                   submits, picks, calls, genCalls, timers>>
    /\ submitOutcome' = NoSubmit
    /\ UNCHANGED <<offersRaised, libVars, problem_attempts>>
    /\ attemptStart' = 0

\* "Choose Different Problem", rendered for a current original problem
handleTryAnother ==
    /\ currentProblem # NULL
    /\ ~isMasteryCheck
    /\ currentProblem' = NULL
    /\ originalProblem' = NULL
    /\ isMasteryCheck' = FALSE
    /\ showMasteryCheckModal' = FALSE
    /\ showCelebrationModal' = FALSE
    /\ Render(currentProblem, NULL)
    /\ UNCHANGED <<celebrationType, isGeneratingMastery, submits, picks, calls,
                   genCalls, timers>>
    /\ submitOutcome' = NoSubmit
    /\ UNCHANGED <<offersRaised, libVars, problem_attempts>>
    /\ attemptStart' = 0

(* ------------------------------- chat ---------------------------------- *)
Trim(text) == IF text = " " THEN "" ELSE text
Inputs == {"", " ", "answer"}

StudentMessage(text) == [role |-> "student", text |-> text, badge_type |-> Missing]
TutorMessage(text, badge) == [role |-> "tutor", text |-> text, badge_type |-> badge]

\* messages.map(m => ({ role: m.role, text: m.text }))
History(msgs) == [i \in 1..Len(msgs) |-> [role |-> msgs[i].role, text |-> msgs[i].text]]

\* the prop page.tsx passes as onCorrectAnswer
OnCorrectAnswer(mastery) ==
    IF mastery THEN "handleMasteryCorrectAnswer" ELSE "handleOriginalCorrectAnswer"

\* mutant: handleSubmit has no early return
SubmitIgnored_Never(text) == FALSE

\* mutant: the early return tests the input only
SubmitIgnored_InputOnly(text) == Falsy(Trim(text))

\* the early return of handleSubmit
SubmitIgnored(text) == Falsy(Trim(text)) \/ isLoading

\* handleSubmit up to its await
handleSubmit(text, limit) ==
    /\ Mounted
    /\ IF SubmitIgnored(text)
       THEN /\ submitOutcome' = [loading |-> isLoading, did |-> "returned"]
            /\ UNCHANGED <<pageVars, chatVars, mountId, submits, picks, calls,
                           genCalls, timers>>
       ELSE /\ submits < limit
            /\ submitOutcome' = [loading |-> isLoading, did |-> "sent"]
            /\ submits' = submits + 1
            /\ messages' = Append(messages, StudentMessage(Trim(text)))
            /\ isLoading' = TRUE
            /\ \E env \in Envs :
                   calls' = calls \cup {
                       [kind |-> "submit",
                        mount |-> mountId,
                        isMasteryCheck |-> isMasteryCheck,
                        body |-> [problem_id |-> currentProblem.id,
                                  student_answer |-> Trim(text),
                                  conversation_history |-> History(messages),
                                  hints_used |-> hintsUsed,
                                  request_solution |-> FALSE],
                        env |-> env]}
            /\ UNCHANGED <<pageVars, hintsUsed, showSolutionButton, mountId,
                           picks, genCalls, timers>>
    /\ UNCHANGED <<offersRaised, libVars, problem_attempts, attemptStart>>

\* mutant: the failure callback is scheduled whatever the attempt is
Scheduled_AnyAttempt(c, result) ==
    (IF ~Falsy(result.show_solution_button)
     THEN SetToBag({[handler |-> "handleMasteryFailed", mount |-> c.mount]})
     ELSE EmptyBag)
    (+)
    (IF result.response_type = "correct_final"
     THEN SetToBag({[handler |-> OnCorrectAnswer(c.isMasteryCheck), mount |-> c.mount]})
     ELSE EmptyBag)

\* the callbacks handleSubmit hands to setTimeout for a result
Scheduled(c, result) ==
    (IF ~Falsy(result.show_solution_button) /\ c.isMasteryCheck
     THEN SetToBag({[handler |-> "handleMasteryFailed", mount |-> c.mount]})
     ELSE EmptyBag)
    (+)
    (IF result.response_type = "correct_final"
     THEN SetToBag({[handler |-> OnCorrectAnswer(c.isMasteryCheck), mount |-> c.mount]})
     ELSE EmptyBag)

\* mutant: the counter is keyed off the classification, not the badge
HintsAfter_ByResponseType(count, result) ==
    IF result.response_type = "needs_hint" THEN count + 1 ELSE count

\* the hint counter after a result
HintsAfter(count, result) ==
    IF result.badge_type = "hint_given" THEN count + 1 ELSE count

\* the solution button after a result
ButtonAfter(shown, result) ==
    IF ~Falsy(result.show_solution_button) THEN TRUE ELSE shown

\* mutant: the flag is reset at the end of the try block only
LoadingAfter_TryOnly(status) == status # 200

\* finally { setIsLoading(false) }: the loading flag once the handler is
\* through, whether the try completed or the catch ran
LoadingAfter(status) == FALSE

\* handleSubmit from the response on: try, catch and finally.  State setters
\* of an instance that is no longer mounted do nothing; setTimeout still runs.
SubmitResolved ==
    \E c \in calls :
        /\ c.kind = "submit"
        /\ calls' = calls \ {c}
        /\ LET response == Fetch(c.body, c.env)
               result == response.body
           IN  IF response.status = 200
               THEN /\ timers' = timers (+) Scheduled(c, result)
                    /\ IF Live(c)
                       THEN /\ messages' = Append(messages,
                                   TutorMessage(result.tutor_message, result.badge_type))
                            /\ hintsUsed' = HintsAfter(hintsUsed, result)
                            /\ showSolutionButton' = ButtonAfter(showSolutionButton, result)
                            /\ isLoading' = LoadingAfter(response.status)
                       ELSE UNCHANGED chatVars
               ELSE /\ timers' = timers
                    /\ IF Live(c)
                       THEN /\ messages' = Append(messages, TutorMessage(ErrorMessage, Missing))
                            /\ isLoading' = LoadingAfter(response.status)
                            /\ UNCHANGED <<hintsUsed, showSolutionButton>>
                       ELSE UNCHANGED chatVars
        /\ UNCHANGED <<pageVars, mountId, submits, picks, genCalls>>
    /\ submitOutcome' = NoSubmit
    /\ UNCHANGED <<offersRaised, libVars, problem_attempts, attemptStart>>

\* the button is rendered while showSolutionButton, disabled while isLoading
handleShowSolution ==
    /\ Mounted
    /\ showSolutionButton
    /\ ~isLoading
    /\ isLoading' = TRUE
    /\ \E env \in SolutionEnvs :
           calls' = calls \cup {
               [kind |-> "solution",
                mount |-> mountId,
                isMasteryCheck |-> isMasteryCheck,
                body |-> [problem_id |-> currentProblem.id,
                          student_answer |-> "show solution",
                          conversation_history |-> History(messages),
                          hints_used |-> hintsUsed,
                          request_solution |-> TRUE],
                env |-> env]}
    /\ UNCHANGED <<pageVars, messages, hintsUsed, showSolutionButton, mountId,
                   submits, picks, genCalls, timers>>
    /\ submitOutcome' = NoSubmit
    /\ UNCHANGED <<offersRaised, libVars, problem_attempts, attemptStart>>

\* result.explanation || result.tutor_message
SolutionText(result) ==
    IF ~Falsy(result.explanation) THEN result.explanation ELSE result.tutor_message

\* mutant: the solution response is handled as an evaluation result
SolutionScheduled_AsSubmit(c, result) == Scheduled(c, result)

\* the callbacks handleShowSolution hands to setTimeout for a result: it has
\* no setTimeout and reads neither response_type nor show_solution_button
SolutionScheduled(c, result) == EmptyBag

\* the hint counter after a solution response: no setHintsUsed in the handler
SolutionHintsAfter(count, result) == count

\* handleShowSolution from the response on; response.ok is not looked at
ShowSolutionResolved ==
    \E c \in calls :
        /\ c.kind = "solution"
        /\ calls' = calls \ {c}
        /\ LET response == Fetch(c.body, c.env)
           IN  IF Live(c)
               THEN /\ isLoading' = LoadingAfter(response.status)
                    /\ IF response.status = 0
                       THEN UNCHANGED <<messages, showSolutionButton>>
                       ELSE /\ messages' = Append(messages,
                                   TutorMessage(SolutionText(response.body), Missing))
                            /\ showSolutionButton' = FALSE
                    /\ hintsUsed' = SolutionHintsAfter(hintsUsed, response.body)
               ELSE UNCHANGED chatVars
        /\ timers' = timers (+) (IF Fetch(c.body, c.env).status = 0
                                 THEN EmptyBag
                                 ELSE SolutionScheduled(c, Fetch(c.body, c.env).body))
        /\ UNCHANGED <<pageVars, mountId, submits, picks, genCalls>>
    /\ submitOutcome' = NoSubmit
    /\ UNCHANGED <<offersRaised, libVars, problem_attempts, attemptStart>>

(* --------------------------- specifications ---------------------------- *)
NextBounded(submitLimit, pickLimit) ==
    \/ \E p \in CanonicalProblems :
           handleProblemSelected(p, pickLimit)
    \/ handleOriginalCorrectAnswer
    \/ handleMasteryCorrectAnswer
    \/ handleMasteryFailed
    \/ handleStartMasteryCheck
    \/ StartMasteryCheckResolved
    \/ handleSkipMasteryCheck
    \/ handleCelebrationContinue
    \/ handleTryAnother
    \/ \E text \in Inputs : handleSubmit(text, submitLimit)
    \/ SubmitResolved
    \/ handleShowSolution
    \/ ShowSolutionResolved

Next == NextBounded(MaxSubmits, MaxPicks)
Spec == Init /\ [][Next]_vars

\* the page when every call to /api/evaluate is answered or fails: fetch
\* settles, so the continuation of the awaiting handler is eventually run
SpecLive ==
    /\ Init
    /\ [][Next]_vars
    /\ WF_vars(SubmitResolved)
    /\ WF_vars(ShowSolutionResolved)

\* one original attempt followed through a longer conversation
NextChat ==
    \/ \E p \in CanonicalProblems : handleProblemSelected(p, MaxPicksChat)
    \/ handleOriginalCorrectAnswer
    \/ \E text \in Inputs : handleSubmit(text, MaxSubmitsChat)
    \/ SubmitResolved
    \/ handleShowSolution
    \/ ShowSolutionResolved
SpecChat == Init /\ [][NextChat]_vars

\* evaluateAnswer alone, on every response the model may give
RawResponses ==
    {NoJson(k) : k \in RawKinds \ {"json"}}
    \cup {Json(rt, msg, badge, show) :
            rt \in ResponseTypes \cup {"something_else", "", Missing},
            msg \in {"msg", "", Missing},
            badge \in BadgeTypes \cup {"something_else", "", Missing},
            show \in {"true", "false", Missing}}

InitGateway ==
    /\ currentProblem = NULL
    /\ originalProblem = NULL
    /\ isMasteryCheck = FALSE
    /\ showMasteryCheckModal = FALSE
    /\ showCelebrationModal = FALSE
    /\ celebrationType = "mastery_passed"
    /\ isGeneratingMastery = FALSE
    /\ messages = <<>>
    /\ isLoading = FALSE
    /\ hintsUsed = 0
    /\ showSolutionButton = FALSE
    /\ mountId = 0
    /\ submits = 0
    /\ picks = 0
    /\ calls = {}
    /\ genCalls = EmptyBag
    /\ timers = EmptyBag
    /\ submitOutcome = NoSubmit
    /\ offersRaised = EmptyBag
    /\ gwRaw \in RawResponses
    /\ gwResult = NULL
    /\ problem_attempts = {}
    /\ attemptStart = 0
    /\ dgRequest = [arrays |-> TRUE]
    /\ dgRaw = DiagNoJson("throw")
    /\ dgResult = NULL
    /\ gsCount = 1
    /\ gsRaw = GenNoJson("throw")
    /\ gsResult = NULL

EvaluateAnswerReturns ==
    /\ gwResult = NULL
    /\ gwResult' = evaluateAnswer(gwRaw)
    /\ UNCHANGED <<pageVars, chatVars, mountId, submits, picks, calls, genCalls,
                   timers, submitOutcome, offersRaised, gwRaw,
                   problem_attempts, attemptStart, diagnoseVars, generateVars>>

NextGateway == EvaluateAnswerReturns
SpecGateway == InitGateway /\ [][NextGateway]_vars


\* diagnoseStudent alone, on every response the model may give
DiagnosticRequests == {[arrays |-> a] : a \in BOOLEAN}
DiagRawResponses ==
    {DiagNoJson(k) : k \in RawKinds \ {"json"}}
    \cup {DiagJson(type, conf, desc) :
            type \in MisconceptionTypes \cup {"", Missing},
            conf \in Confidences \cup {"", Missing},
            desc \in {"description", "", Missing}}

InitDiagnose ==
    /\ currentProblem = NULL
    /\ originalProblem = NULL
    /\ isMasteryCheck = FALSE
    /\ showMasteryCheckModal = FALSE
    /\ showCelebrationModal = FALSE
    /\ celebrationType = "mastery_passed"
    /\ isGeneratingMastery = FALSE
    /\ messages = <<>>
    /\ isLoading = FALSE
    /\ hintsUsed = 0
    /\ showSolutionButton = FALSE
    /\ mountId = 0
    /\ submits = 0
    /\ picks = 0
    /\ calls = {}
    /\ genCalls = EmptyBag
    /\ timers = EmptyBag
    /\ submitOutcome = NoSubmit
    /\ offersRaised = EmptyBag
    /\ gwRaw = NoJson("throw")
    /\ gwResult = NULL
    /\ problem_attempts = {}
    /\ attemptStart = 0
    /\ dgRequest \in DiagnosticRequests
    /\ dgRaw \in DiagRawResponses
    /\ dgResult = NULL
    /\ gsCount = 1
    /\ gsRaw = GenNoJson("throw")
    /\ gsResult = NULL

DiagnoseStudentReturns ==
    /\ dgResult = NULL
    /\ dgResult' = diagnoseStudent(dgRequest, dgRaw)
    /\ UNCHANGED <<pageVars, chatVars, mountId, submits, picks, calls, genCalls,
                   timers, submitOutcome, offersRaised, problem_attempts,
                   attemptStart, gatewayVars, dgRequest, dgRaw, generateVars>>

NextDiagnose == DiagnoseStudentReturns
SpecDiagnose == InitDiagnose /\ [][NextDiagnose]_vars

\* generateSimilarProblems alone, on every response the model may give
ModelProblems ==
    [text : {"text", ""}, expected_answer : {"answer", ""}, explanation : {"explanation", ""}]
GenRawResponses ==
    {GenNoJson(k) : k \in RawKinds \ {"json"}}
    \cup {GenJson(FALSE, <<>>)}
    \cup {GenJson(TRUE, ps) : ps \in UNION {[1..n -> ModelProblems] : n \in 0..MaxGenerated}}

InitGenerate ==
    /\ currentProblem = NULL
    /\ originalProblem = NULL
    /\ isMasteryCheck = FALSE
    /\ showMasteryCheckModal = FALSE
    /\ showCelebrationModal = FALSE
    /\ celebrationType = "mastery_passed"
    /\ isGeneratingMastery = FALSE
    /\ messages = <<>>
    /\ isLoading = FALSE
    /\ hintsUsed = 0
    /\ showSolutionButton = FALSE
    /\ mountId = 0
    /\ submits = 0
    /\ picks = 0
    /\ calls = {}
    /\ genCalls = EmptyBag
    /\ timers = EmptyBag
    /\ submitOutcome = NoSubmit
    /\ offersRaised = EmptyBag
    /\ gwRaw = NoJson("throw")
    /\ gwResult = NULL
    /\ problem_attempts = {}
    /\ attemptStart = 0
    /\ dgRequest = [arrays |-> TRUE]
    /\ dgRaw = DiagNoJson("throw")
    /\ dgResult = NULL
    /\ gsCount \in 1..MaxCount
    /\ gsRaw \in GenRawResponses
    /\ gsResult = NULL

GenerateSimilarProblemsReturns ==
    /\ gsResult = NULL
    /\ gsResult' = generateSimilarProblems(gsCount, gsRaw)
    /\ UNCHANGED <<pageVars, chatVars, mountId, submits, picks, calls, genCalls,
                   timers, submitOutcome, offersRaised, problem_attempts,
                   attemptStart, gatewayVars, diagnoseVars, gsCount, gsRaw>>

NextGenerate == GenerateSimilarProblemsReturns
SpecGenerate == InitGenerate /\ [][NextGenerate]_vars

(* ============================== claims ================================= *)
\* turns appended by handleShowSolution from the response on
IsSolutionTurn(m) ==
    m.role = "tutor" /\ m.text \in {"explanation", SolutionIntro, Missing}

\* the learner has asked for the solution in the mounted chat
SolutionRequested ==
    \/ \E c \in calls : c.kind = "solution" /\ Live(c)
    \/ \E i \in 1..Len(messages) : IsSolutionTurn(messages[i])

\* tutor turns of the mounted chat that carry the hint_given badge
HintTurns == {i \in 1..Len(messages) : messages[i].badge_type = "hint_given"}

\* C1: within one attempt the hint count stays in 0..3 (it saturates at the
\* ceiling however many hint-consuming results arrive).
C1_HintCountInRange ==
    hintsUsed \in 0..HintCeiling

\* C2: while the solution has not been requested, the solution offer is on
\* exactly when the hint count is 3.
C2_OfferIffCeiling ==
    (Mounted /\ ~SolutionRequested) =>
        (showSolutionButton <=> hintsUsed = HintCeiling)

\* C3: the step that starts a mastery check leaves the chat with hint count
\* 0, an empty conversation and no solution offer.
C3_MasteryStartsFresh ==
    [][(~isMasteryCheck /\ isMasteryCheck') =>
          (hintsUsed' = 0 /\ messages' = <<>> /\ ~showSolutionButton')]_vars


\* pending callbacks of one handler
Pending(handler, bag) ==
    LET ts == {t \in BagToSet(bag) : t.handler = handler}
        RECURSIVE Sum(_)
        Sum(S) == IF S = {} THEN 0
                  ELSE LET t == CHOOSE x \in S : TRUE
                       IN  CopiesIn(t, bag) + Sum(S \ {t})
    IN  Sum(ts)

\* the evaluation capability is reached and classifies the answer as rt
WouldClassify(c, rt) ==
    /\ c.kind = "submit"
    /\ c.env.fault = "none"
    /\ evaluateAnswer(c.env.raw).response_type = rt

\* C4: a submission of a mastery attempt that the evaluation capability would
\* classify correct_final is evaluated and hands the mastery_passed callback
\* to the page.
C4_MasteryCorrectIsPassed ==
    [][\A c \in calls \ calls' :
          (c.isMasteryCheck /\ WouldClassify(c, "correct_final")) =>
              Pending("handleMasteryCorrectAnswer", timers')
                  = Pending("handleMasteryCorrectAnswer", timers) + 1]_vars

MasteryFailedShown ==
    showCelebrationModal /\ celebrationType = "mastery_failed"

C6_OfferAtMostOnce ==
    \A m \in BagToSet(offersRaised) : CopiesIn(m, offersRaised) <= 1

\* C7: while the current attempt is a mastery attempt the mastery-check offer
\* is not shown, and no sibling-problem generation was started from it.
C7_NoOfferInMastery ==
    /\ (Mounted /\ isMasteryCheck) => ~showMasteryCheckModal
    /\ \A g \in BagToSet(genCalls) : ~g.currentProblem.generated

\* calls in flight for the mounted chat
InFlight == {c \in calls : Live(c)}

TutorTurnAppended ==
    /\ Mounted /\ Mounted' /\ mountId' = mountId
    /\ Len(messages') = Len(messages) + 1
    /\ messages'[Len(messages')].role = "tutor"

\* C9: a tutor turn carries the hint_given badge exactly when the hint count
\* is incremented in the step that appends it, and the count changes in no
\* other step of a chat.
C9_BadgeIffIncrement ==
    /\ [][TutorTurnAppended =>
            (messages'[Len(messages')].badge_type = "hint_given"
                <=> hintsUsed' = hintsUsed + 1)]_vars
    /\ [][(Mounted /\ Mounted' /\ mountId' = mountId /\ hintsUsed' # hintsUsed) =>
            (TutorTurnAppended /\ hintsUsed' = hintsUsed + 1)]_vars

\* a chat with a badged hint turn counted once and a tutor turn that carries
\* another badge and was not counted
C9_Witness ==
    /\ hintsUsed = 1 /\ Cardinality(HintTurns) = 1
    /\ \E i \in 1..Len(messages) :
          messages[i].role = "tutor" /\ messages[i].badge_type = "corrective_feedback"

\* a response that passes the gateway's contract
WellFormed(raw) ==
    /\ raw.kind = "json"
    /\ raw.response_type \in ResponseTypes
    /\ ~Falsy(raw.tutor_message)
    /\ ~Falsy(raw.badge_type)

\* C10: evaluateAnswer returns the fixed fallback for every response that is
\* empty, unparsable, or lacks a recognized response_type, a tutor_message or
\* a badge_type.
C10_MalformedGetsFallback ==
    (gwResult # NULL /\ ~WellFormed(gwRaw)) => gwResult = FallbackResponse

\* response_type and badge_type disagree about hint consumption
Disagree(raw) ==
    (raw.response_type = "needs_hint") # (raw.badge_type = "hint_given")

\* C11: evaluateAnswer returns the fixed fallback for every JSON response
\* whose response_type and badge_type disagree about hint consumption
\* (needs_hint without hint_given, or hint_given without needs_hint).
C11_DisagreementGetsFallback ==
    (gwResult # NULL /\ gwRaw.kind = "json" /\ Disagree(gwRaw)) =>
        gwResult = FallbackResponse

\* the evaluation result a submission of the mounted chat gets, if the step
\* resolves one: the set of results applied in the step (empty or a singleton)
ResultsApplied ==
    {Fetch(c.body, c.env).body :
        c \in {x \in calls \ calls' :
                 /\ x.kind = "submit" /\ Live(x)
                 /\ Fetch(x.body, x.env).status = 200}}

\* C12: a result classified correct_final, partial_progress, arithmetic_error
\* or conceptual_error leaves the hint count as it was; the count changes
\* only in a step that applies a needs_hint result.
C12_OnlyNeedsHintChangesCount ==
    /\ [][\A r \in ResultsApplied :
            r.response_type # "needs_hint" => hintsUsed' = hintsUsed]_vars
    /\ [][(Mounted /\ Mounted' /\ mountId' = mountId /\ hintsUsed' # hintsUsed) =>
            \E r \in ResultsApplied : r.response_type = "needs_hint"]_vars

\* the original attempt of chat instance m has received a correct_final
\* result: its callback is pending or has run
SolvedOriginal(m) ==
    \/ m \in BagToSet(offersRaised)
    \/ \E t \in BagToSet(timers) :
          t.handler = "handleOriginalCorrectAnswer" /\ t.mount = m

\* C13: when the first submission of an original attempt is classified
\* correct_final the hint count stays 0, and the attempt is then terminal: no
\* second submission of that attempt is sent on to be evaluated.
C13_FirstCorrectIsTerminal ==
    /\ [][\A c \in calls \ calls' :
            (/\ c.kind = "submit" /\ Live(c) /\ ~c.isMasteryCheck
             /\ c.body.conversation_history = <<>>
             /\ WouldClassify(c, "correct_final")) => hintsUsed' = 0]_vars
    /\ [](\A c \in calls :
            ~(/\ c.kind = "submit" /\ ~c.isMasteryCheck
              /\ Len(c.body.conversation_history) = 2
              /\ SolvedOriginal(c.mount)
              /\ c.env.fault = "none"))

\* generation calls whose response the step handles, and whether it failed
GenerationResolved(g) == CopiesIn(g, genCalls') < CopiesIn(g, genCalls)
GenerationFailed(g) ==
    LET response == GenerateFetch(g.body, g.env)
    IN  ~(response.status = 200 /\ Len(response.problems) > 0)

\* the row updateProblemAttempt would leave for an ended original attempt
FinalRow(problem_id, status) ==
    [problem_id |-> problem_id, is_mastery_check |-> FALSE, final_status |-> status]

\* C14: when sibling-problem generation fails after the learner accepted the
\* offer, the step that handles the failure sets no mastery flag, starts no
\* second conversation, shows no error to the learner (no turn, no dialog),
\* and the original attempt is recorded as mastered.
C14_GenerationFailureFailsOpen ==
    [][\A g \in BagToSet(genCalls) :
          (GenerationResolved(g) /\ GenerationFailed(g)) =>
             /\ isMasteryCheck' = isMasteryCheck
             /\ ~Mounted' /\ messages' = <<>>
             /\ showCelebrationModal' = showCelebrationModal
             /\ showMasteryCheckModal' = showMasteryCheckModal
             /\ FinalRow(g.body.problem_id, "mastered") \in problem_attempts']_vars

\* the conversation sent with a call holds a solution explanation
RevealedBefore(c) ==
    \E i \in 1..Len(c.body.conversation_history) :
        /\ c.body.conversation_history[i].role = "tutor"
        /\ c.body.conversation_history[i].text = SolutionBody.explanation

\* C15: a successful solution request appends the explanation as one tutor
\* turn, and the attempt is then terminal: no learner submission made after
\* the explanation is accepted and sent on to be evaluated.
C15_SolutionRevealedIsTerminal ==
    /\ [][\A c \in calls \ calls' :
            (c.kind = "solution" /\ Live(c) /\ Fetch(c.body, c.env).status = 200) =>
                messages' = Append(messages,
                                   TutorMessage(SolutionBody.explanation, Missing))]_vars
    /\ [](\A c \in calls : c.kind = "submit" => ~RevealedBefore(c))

\* C16: a solution explanation is produced only for an attempt whose solution
\* offer is open, which is one whose hint count has reached the ceiling.
C16_SolutionOnlyAfterOffer ==
    \A c \in calls :
        (c.kind = "solution" /\ Live(c) /\ Fetch(c.body, c.env).status = 200) =>
            (showSolutionButton /\ c.body.hints_used >= HintCeiling)

\* the solution offer of the mounted chat is closed in this step
OfferClosed ==
    /\ Mounted /\ Mounted' /\ mountId' = mountId
    /\ showSolutionButton /\ ~showSolutionButton'

\* C17: while the solution offer is open, further submissions never raise the
\* hint count above 3 and never clear the offer; only the answer to a
\* solution request closes it.
C17_OpenOfferStaysOpen ==
    /\ [][(Mounted /\ showSolutionButton /\ Mounted' /\ mountId' = mountId) =>
            hintsUsed' <= HintCeiling]_vars
    /\ [][OfferClosed => \E c \in calls \ calls' : c.kind = "solution"]_vars

\* the evaluation of a submission failed: the HTTP call did (rejected fetch
\* or a status other than 200), or the gateway fell back
EvaluationFailed(c) ==
    /\ c.kind = "submit"
    /\ \/ Fetch(c.body, c.env).status # 200
       \/ Fetch(c.body, c.env).body = FallbackResponse

Min(a, b) == IF a <= b THEN a ELSE b

\* C18: every failed evaluation appends a tutor turn that counts as a hint:
\* it carries the hint_given badge and the hint count after it is one higher
\* than before, saturating at 3.
C18_FailureConsumesHint ==
    [][\A c \in calls \ calls' :
          (EvaluationFailed(c) /\ Live(c)) =>
             /\ Len(messages') = Len(messages) + 1
             /\ messages'[Len(messages')].badge_type = "hint_given"
             /\ hintsUsed' = Min(hintsUsed + 1, HintCeiling)]_vars

\* turns of the mounted chat: the learner's, and the tutor turns handleSubmit
\* appends (an evaluation, the gateway's fallback, or the error turn)
StudentTurns == {i \in 1..Len(messages) : messages[i].role = "student"}
EvaluationTurns ==
    {i \in 1..Len(messages) :
        messages[i].role = "tutor" /\ ~IsSolutionTurn(messages[i])}
SubmitsInFlight == {c \in InFlight : c.kind = "submit"}

\* C19: nothing is retried.  An accepted submission starts exactly one call;
\* the step that handles a call's response starts no other call and, for a
\* submission of the mounted chat, appends exactly one tutor turn; and every
\* learner turn of a chat has its one tutor turn or its one call in flight,
\* so the turn is appended before the next submission is made.
C19_OneCallOneTurn ==
    /\ [][submitOutcome'.did = "sent" =>
            Cardinality(calls') = Cardinality(calls) + 1]_vars
    /\ [][\A c \in calls \ calls' :
            /\ calls' = calls \ {c}
            /\ (c.kind = "submit" /\ Live(c)) =>
                  /\ Len(messages') = Len(messages) + 1
                  /\ messages'[Len(messages')].role = "tutor"
                  /\ SubSeq(messages', 1, Len(messages)) = messages]_vars
    /\ [](Mounted =>
            /\ Cardinality(SubmitsInFlight) <= 1
            /\ Cardinality(StudentTurns)
                 = Cardinality(EvaluationTurns) + Cardinality(SubmitsInFlight))

\* a failed evaluation left its one fallback or error turn, and the learner's
\* next submission is in flight as a fresh call
C19_Witness ==
    /\ Mounted /\ SubmitsInFlight # {}
    /\ \E i \in EvaluationTurns :
          messages[i].text \in {FallbackMessage, ErrorMessage}
    /\ Cardinality(StudentTurns) = 2

\* the original attempt of the mounted chat ends in this step
OriginalAttemptEnds == Mounted /\ ~isMasteryCheck /\ ~Mounted'

\* the final_status the ended attempt is due: struggling once its solution
\* was revealed, mastered once solved, incomplete when left before either
FinalStatus ==
    IF \E i \in 1..Len(messages) :
          messages[i].role = "tutor" /\ messages[i].text = SolutionBody.explanation
    THEN "struggling"
    ELSE IF SolvedOriginal(mountId) THEN "mastered" ELSE "incomplete"

\* C20: when an original attempt ends, the problem_attempts table holds
\* exactly one final row for it, with the status its terminal state maps to.
C20_EndedAttemptHasOneStatus ==
    [][OriginalAttemptEnds =>
          {r \in problem_attempts' :
              r.problem_id = currentProblem.id /\ ~r.is_mastery_check}
            = {FinalRow(currentProblem.id, FinalStatus)}]_vars

\* the attempt a call was made in has ended: its chat is no longer the mounted
\* one, or the mounted chat has gone on to another attempt
AttemptEnded(c) == ~Live(c) \/ c.isMasteryCheck # isMasteryCheck

\* C21: a call that resolves after its attempt has ended appends no turn and
\* leaves the hint count and the solution offer of the chat as they were.
C21_LateCallHasNoEffect ==
    [][\A c \in calls \ calls' :
          AttemptEnded(c) => UNCHANGED <<messages, hintsUsed, showSolutionButton>>]_vars

\* the turns of the attempt the mounted chat shows, oldest first
AttemptTurns == SubSeq(messages, attemptStart + 1, Len(messages))

\* C22: the conversation history sent with an evaluation request is the
\* complete sequence of the turns appended so far in that attempt, in append
\* order, without the answer being submitted.
C22_FullHistoryOfAttempt ==
    [][\A c \in calls' \ calls :
          c.kind = "submit" =>
              c.body.conversation_history = History(AttemptTurns)]_vars

\* the model call of diagnoseStudent was made and failed: it threw, its
\* content was empty or no JSON object, or the object lacks one of
\* misconception_type, confidence, description
DiagnosticCallFailed ==
    /\ dgRequest.arrays
    /\ \/ dgRaw.kind # "json"
       \/ dgRaw.misconception_type \in {"", Missing}
       \/ dgRaw.confidence \in {"", Missing}
       \/ dgRaw.description \in {"", Missing}

\* C23: a failing diagnostic call raises nothing to the caller:
\* diagnoseStudent returns misconception_type none with confidence low and
\* exactly two recommendations, and the step changes no attempt state.
C23_DiagnosticFailureDegrades ==
    /\ []((dgResult # NULL /\ DiagnosticCallFailed) =>
            /\ ~dgResult.raised
            /\ dgResult.misconception_type = "none"
            /\ dgResult.confidence = "low"
            /\ Len(dgResult.recommendations) = 2)
    /\ [][dgResult' # dgResult =>
            UNCHANGED <<pageVars, chatVars, calls, timers, problem_attempts>>]_vars

\* a response that parses but lacks its description has been degraded
C23_Witness ==
    /\ dgResult = DiagnosticFallback
    /\ dgRaw.kind = "json" /\ dgRaw.misconception_type = "conceptual"
    /\ dgRaw.confidence = "high" /\ dgRaw.description = Missing

\* the route refuses the request of a call: 400 for a missing field, 404 for
\* a problem the repository does not return
Refused(c) == Fetch(c.body, c.env).status \in {400, 404}

\* C24: a request lacking problem_id or student_answer is answered 400 and one
\* for a problem the repository does not hold 404; when such an answer
\* reaches the chat, for an evaluation or a solution request, one tutor error
\* turn is appended and the hint count and the solution offer stay as they were.
C24_RefusedRequestLeavesAttempt ==
    /\ [](\A c \in calls :
            c.env.fault \notin {"network", "server"} =>
               /\ (Falsy(c.body.problem_id) \/ Falsy(c.body.student_answer))
                     => Fetch(c.body, c.env).status = 400
               /\ (~Falsy(c.body.problem_id) /\ ~Falsy(c.body.student_answer)
                     /\ c.body.problem_id \notin Repository)
                     => Fetch(c.body, c.env).status = 404)
    /\ [][\A c \in calls \ calls' :
            (Refused(c) /\ Live(c)) =>
               /\ messages' = Append(messages, TutorMessage(ErrorMessage, Missing))
               /\ UNCHANGED <<hintsUsed, showSolutionButton>>]_vars

\* C25: whenever the mastery-check offer or the celebration dialog is shown,
\* a problem is current.
C25_DialogsNeedCurrentProblem ==
    (showMasteryCheckModal \/ showCelebrationModal) => currentProblem # NULL

\* C26: the mastery flag being set implies that both the saved original
\* problem and the current problem are present.
C26_MasteryFlagHasBothProblems ==
    isMasteryCheck => (originalProblem # NULL /\ currentProblem # NULL)

\* C27: a solution request that fails (non-OK HTTP status, or an exception)
\* leaves the attempt unchanged: no tutor turn is appended and the solution
\* offer stays open.
SolutionRequestFailed(c) ==
    Fetch(c.body, c.env) = NetworkError \/ Fetch(c.body, c.env).status # 200
C27_FailedSolutionLeavesAttempt ==
    [][\A c \in calls \ calls' :
          (c.kind = "solution" /\ SolutionRequestFailed(c) /\ Live(c)) =>
             UNCHANGED <<messages, showSolutionButton>>]_vars
\* C27 restricted to requests that raise an exception in fetch.
C27_ThrownSolutionLeavesAttempt ==
    [][\A c \in calls \ calls' :
          (c.kind = "solution" /\ Fetch(c.body, c.env) = NetworkError /\ Live(c)) =>
             UNCHANGED <<messages, showSolutionButton>>]_vars

\* C28: requesting the solution never counts as solving.  The solution
\* response is tagged response_type correct_final and badge hint_given, yet
\* receiving it schedules no correct-answer callback and leaves the hint
\* count as it was.
C28_SolutionNeverSolves ==
    /\ [](\A c \in calls :
            (c.kind = "solution" /\ Fetch(c.body, c.env).status = 200) =>
               /\ Fetch(c.body, c.env).body.response_type = "correct_final"
               /\ Fetch(c.body, c.env).body.badge_type = "hint_given")
    /\ [][\A c \in calls \ calls' :
            c.kind = "solution" => UNCHANGED <<timers, hintsUsed>>]_vars
\* a delivered solution is on screen and nothing is waiting to fire
C28_Witness ==
    /\ Mounted
    /\ \E i \in 1..Len(messages) :
          messages[i].role = "tutor" /\ messages[i].text = "explanation"
    /\ timers = EmptyBag
    /\ ~showMasteryCheckModal /\ ~showCelebrationModal

\* C29: provided the underlying call resolves or rejects, every submitted
\* answer and every solution request returns the chat to idle: the step that
\* ends a call of the mounted chat clears the loading flag whether the call
\* succeeded, returned an HTTP error or threw, and a loading chat is
\* eventually idle.
C29_ChatReturnsToIdle ==
    /\ [][\A c \in calls \ calls' : Live(c) => ~isLoading']_vars
    /\ (Mounted /\ isLoading) ~> ~isLoading
\* the chat is idle again after a call that failed
C29_Witness ==
    /\ Mounted
    /\ ~isLoading
    /\ calls = {}
    /\ Len(messages) > 0
    /\ messages[Len(messages)] = TutorMessage(ErrorMessage, Missing)

\* C30: generateSimilarProblems either throws or returns exactly `count`
\* problems, each with non-empty text, expected_answer and explanation; it
\* never returns an empty list.
C30_ExactlyCountProblems ==
    (gsResult # NULL /\ ~gsResult.thrown) =>
        /\ Len(gsResult.problems) = gsCount
        /\ \A i \in 1..Len(gsResult.problems) :
              /\ ~Falsy(gsResult.problems[i].text)
              /\ ~Falsy(gsResult.problems[i].expected_answer)
              /\ ~Falsy(gsResult.problems[i].explanation)
\* C30 with "exactly count" weakened to "between one and count"
C30_AtMostCountProblems ==
    (gsResult # NULL /\ ~gsResult.thrown) =>
        /\ Len(gsResult.problems) \in 1..gsCount
        /\ \A i \in 1..Len(gsResult.problems) :
              /\ ~Falsy(gsResult.problems[i].text)
              /\ ~Falsy(gsResult.problems[i].expected_answer)
              /\ ~Falsy(gsResult.problems[i].explanation)

====
